---- MODULE Spec2Model ----
(***************************************************************************)
(* Inventory service: the in-memory variant (src/unnamed/part_000) and the *)
(* SQL-backed variant (src/main.js), with the photo files each keeps in    *)
(* its cache directory.                                                    *)
(***************************************************************************)
EXTENDS Integers, Sequences, FiniteSets, TLC

\* ------------------------------------------------------------------ bounds
MaxItems == 2
MaxFiles == 2
MaxInflight == 2
MaxRaceFiles == 3

\* ------------------------------------------------------------ JS / SQL values
\* JavaScript undefined (a body field that was not sent)
Undefined == "<undefined>"
\* a null photo column / photo property
Null == 0
\* parseInt's NaN; no stored id equals it (ids are positive)
NaN == -1
\* photo_url: null of the computed link
NoUrl == "null"

\* JS truthiness of a body string: undefined and '' are falsy
Truthy(v) == v # Undefined /\ v # ""

\* mutant of OrEmpty: the description is stored as sent, without the default
OrEmptyAsSent(v) == v

\* description || ''
OrEmpty(v) == IF Truthy(v) THEN v ELSE ""

DigitChars == <<"0", "1", "2", "3", "4", "5", "6", "7", "8", "9">>
DigitOf == [c \in {DigitChars[d] : d \in 1..10} |->
              (CHOOSE d \in 1..10 : DigitChars[d] = c) - 1]
IsDigit(c) == c \in DOMAIN DigitOf
DigitVal(c) == DigitOf[c]

RECURSIVE ParseDigits(_, _, _)
ParseDigits(s, i, acc) ==
  IF i > Len(s) \/ ~IsDigit(s[i]) THEN acc
  ELSE ParseDigits(s, i + 1, acc * 10 + DigitVal(s[i]))

\* parseInt(s, 10): the leading decimal digits, NaN when there is none
ParseInt(s) ==
  IF Len(s) = 0 \/ ~IsDigit(s[1]) THEN NaN ELSE ParseDigits(s, 1, 0)

\* `/inventory/${item.id}/photo`
PhotoLink(id) == "/inventory/" \o ToString(id) \o "/photo"

\* item.photo ? `/inventory/${item.id}/photo` : null
PhotoUrl(item) == IF item.photo # Null THEN PhotoLink(item.id) ELSE NoUrl

\* ` [Photo Link: /inventory/${id}/photo]`
PhotoNote(id) == " [Photo Link: " \o PhotoLink(id) \o "]"

\* { ...item, photo_url: ... }
WithLink(item) ==
  [id |-> item.id, name |-> item.name, description |-> item.description,
   photo |-> item.photo, photo_url |-> PhotoUrl(item)]

\* mutant of ExistsSync: the file is taken to be there without looking
ExistsSyncAssumed(disk, f) == TRUE

\* fs.existsSync(path)
ExistsSync(disk, f) == f \in disk

\* mutant of ShouldUnlink: the existsSync test is left out
ShouldUnlinkUnchecked(disk, f) == f # Null

\* item.photo && fs.existsSync(item.photo)
ShouldUnlink(disk, f) == f # Null /\ ExistsSync(disk, f)

\* fs.unlinkSync(path): removes the file; throws ENOENT when it is absent
UnlinkThrows(disk, f) == f \notin disk
UnlinkSync(disk, f) == disk \ {f}

\* ------------------------------------------------------------ request inputs
\* id parameters: "1x" (parseInt reads 1), "2" .. MaxItems, and "x" (NaN)
IdParams == {<<"1", "x">>, <<"x">>} \cup {<<DigitChars[i + 1]>> : i \in 2..MaxItems}
RegNames == {Undefined, "", "a"}
RegDescs == {Undefined, "d"}
PutNames == {Undefined, "", "b"}
PutDescs == {Undefined, "", "d"}
Flags == {Undefined, "on"}

\* ------------------------------------------------------------------- state
VARIABLES
  variant,    \* "mem", "sql", "pair" or "race": which server(s) run, and how
  inventory,  \* part_000: let inventory = []
  nextId,     \* part_000: let nextId = 1
  mdisk,      \* files in the in-memory variant's cache directory
  mfile,      \* next file name multer generates there
  mres,       \* last response of the in-memory variant
  mhist,      \* history: what was registered under each id there, and
              \* whether it was updated, re-photographed or deleted since
  rows,       \* main.js: table items
  seq,        \* main.js: next value of the id sequence of items
  sdisk,      \* files in the SQL variant's cache directory
  sfile,      \* next file name multer generates there
  procs,      \* main.js: handlers suspended at an await
  sres,       \* last response of the SQL variant (none while the request
              \* accepted last is suspended)
  shist       \* history of the SQL variant's ids, as mhist

memVars == <<inventory, nextId, mdisk, mfile, mres, mhist>>
sqlVars == <<rows, seq, sdisk, sfile, procs, sres, shist>>
vars == <<variant, inventory, nextId, mdisk, mfile, mres, mhist,
          rows, seq, sdisk, sfile, procs, sres, shist>>

\* what a response keeps of its request: the handler, the parsed id parameter
\* (path or form field), whether /register got a name, the file multer stored for
\* it (Null when none was uploaded) and the includePhoto field
Req(kind, idp, name, desc, file, flag) ==
  [kind |-> kind, itemId |-> ParseInt(idp), named |-> Truthy(name),
   file |-> file, flag |-> flag]

\* a response: the request it answers, the status, what caused a 500, the
\* items of the JSON body, the file streamed by sendFile, and the photo path
\* the handler read from the item before replacing or deleting it
Resp(req, status, err, body, sent, old) ==
  [req |-> req, status |-> status, err |-> err, body |-> body,
   sent |-> sent, old |-> old]

NoResp ==
  Resp(Req("none", <<>>, Undefined, Undefined, Null, Undefined),
       0, "none", <<>>, Null, Null)

\* ----------------------------------------------------------------- history
\* Per id: "none" (never assigned), "fresh" (registered, with the name, the
\* description and whether a photo was sent, and not changed since),
\* "photoed" (as fresh but for a replaced photo), "touched" (updated) or
\* "deleted"; gone: a DELETE of the id has succeeded at some time.
HistBlank(st, gone) ==
  [st |-> st, name |-> Undefined, desc |-> Undefined, photo |-> FALSE, gone |-> gone]

HistInit == [i \in 1..MaxItems |-> HistBlank("none", FALSE)]

HistRegister(h, id, name, desc, file) ==
  [h EXCEPT ![id] = [st |-> "fresh", name |-> name, desc |-> desc,
                     photo |-> file # Null, gone |-> @.gone]]

HistUpdate(h, id) ==
  IF id \in DOMAIN h /\ h[id].st \in {"fresh", "photoed"}
  THEN [h EXCEPT ![id] = HistBlank("touched", @.gone)] ELSE h

HistPhoto(h, id) ==
  IF id \in DOMAIN h /\ h[id].st = "fresh"
  THEN [h EXCEPT ![id].st = "photoed"] ELSE h

HistDelete(h, id) ==
  IF id \in DOMAIN h THEN [h EXCEPT ![id] = HistBlank("deleted", TRUE)] ELSE h

\* --------------------------------------------------- in-memory variant
\* inventory.find(i => i.id === itemId) / findIndex: 0 when there is none
FindIndex(inv, itemId) ==
  IF \E k \in 1..Len(inv) : inv[k].id = itemId
  THEN CHOOSE k \in 1..Len(inv) :
         inv[k].id = itemId /\ \A j \in 1..(k - 1) : inv[j].id # itemId
  ELSE 0

\* mutant of Splice: slice for splice, which removes nothing
SpliceAsSlice(inv, k) == inv

\* inventory.splice(itemIndex, 1)
Splice(inv, k) == [j \in 1..(Len(inv) - 1) |-> IF j < k THEN inv[j] ELSE inv[j + 1]]

\* upload.single('photo'): multer writes the uploaded file under CACHE_DIR
\* before the handler runs; req.file.path is its generated name
MemUpload(hasFile) ==
  /\ hasFile => mfile <= MaxFiles
  /\ mfile' = IF hasFile THEN mfile + 1 ELSE mfile

MemReqFile(hasFile) == IF hasFile THEN mfile ELSE Null
MemDiskIn(hasFile) == IF hasFile THEN mdisk \cup {mfile} ELSE mdisk

\* mutant of MemNewItem: the id is the length of the list plus one
MemNewItemByLength(name, desc, file) ==
  [id |-> Len(inventory) + 1, name |-> name, description |-> OrEmpty(desc),
   photo |-> file]

\* the item POST /register stores
MemNewItem(name, desc, file) ==
  [id |-> nextId, name |-> name, description |-> OrEmpty(desc), photo |-> file]

\* mutant of NameMissing: only a missing name is rejected, not an empty one
NameMissingOnlyUndefined(name) == name = Undefined

\* if (!inventory_name)
NameMissing(name) == ~Truthy(name)

\* POST /register
MemRegister(name, desc, hasFile) ==
  LET req == Req("register", <<>>, name, desc, MemReqFile(hasFile), Undefined) IN
  /\ MemUpload(hasFile)
  /\ mdisk' = MemDiskIn(hasFile)
  /\ IF NameMissing(name)
     THEN /\ mres' = Resp(req, 400, "none", <<>>, Null, Null)
          /\ UNCHANGED <<inventory, nextId, mhist>>
     ELSE /\ nextId <= MaxItems
          /\ nextId' = nextId + 1
          /\ mhist' = HistRegister(mhist, nextId, name, desc, req.file)
          /\ inventory' = Append(inventory, MemNewItem(name, desc, req.file))
          /\ mres' = Resp(req, 201, "none",
                          <<MemNewItem(name, desc, req.file)>>, Null, Null)

\* GET /inventory
MemList ==
  /\ mres' = Resp(Req("list", <<>>, Undefined, Undefined, Null, Undefined),
                  200, "none",
                  [k \in 1..Len(inventory) |-> WithLink(inventory[k])], Null, Null)
  /\ UNCHANGED <<inventory, nextId, mdisk, mfile, mhist>>

\* GET /inventory/:id
MemGet(idp) ==
  LET req == Req("get", idp, Undefined, Undefined, Null, Undefined)
      k == FindIndex(inventory, req.itemId) IN
  /\ mres' = IF k = 0
             THEN Resp(req, 404, "none", <<>>, Null, Null)
             ELSE Resp(req, 200, "none", <<WithLink(inventory[k])>>, Null, Null)
  /\ UNCHANGED <<inventory, nextId, mdisk, mfile, mhist>>

\* if (req.body.name) item.name = ...; if (req.body.description) ...
MemApplyUpdate(item, name, desc) ==
  [item EXCEPT !.name = IF Truthy(name) THEN name ELSE @,
               !.description = IF Truthy(desc) THEN desc ELSE @]

\* PUT /inventory/:id
MemUpdate(idp, name, desc) ==
  LET req == Req("update", idp, Undefined, Undefined, Null, Undefined)
      k == FindIndex(inventory, req.itemId) IN
  /\ IF k = 0
     THEN /\ mres' = Resp(req, 404, "none", <<>>, Null, Null)
          /\ UNCHANGED <<inventory, mhist>>
     ELSE /\ inventory' = [inventory EXCEPT ![k] = MemApplyUpdate(@, name, desc)]
          /\ mhist' = HistUpdate(mhist, req.itemId)
          /\ mres' = Resp(req, 200, "none",
                          <<MemApplyUpdate(inventory[k], name, desc)>>, Null, Null)
  /\ UNCHANGED <<nextId, mdisk, mfile>>

\* GET /inventory/:id/photo: the response
MemGetPhotoResponse(idp) ==
  LET req == Req("getphoto", idp, Undefined, Undefined, Null, Undefined)
      k == FindIndex(inventory, req.itemId) IN
  IF k = 0 \/ inventory[k].photo = Null \/ ~ExistsSync(mdisk, inventory[k].photo)
  THEN Resp(req, 404, "none", <<>>, Null, Null)
  ELSE Resp(req, 200, "none", <<>>, inventory[k].photo, Null)

\* GET /inventory/:id/photo
MemGetPhoto(idp) ==
  /\ mres' = MemGetPhotoResponse(idp)
  /\ UNCHANGED <<inventory, nextId, mdisk, mfile, mhist>>

\* PUT /inventory/:id/photo
MemPutPhoto(idp, hasFile) ==
  LET req == Req("putphoto", idp, Undefined, Undefined, MemReqFile(hasFile), Undefined)
      k == FindIndex(inventory, req.itemId)
      disk == MemDiskIn(hasFile) IN
  /\ MemUpload(hasFile)
  /\ UNCHANGED nextId
  /\ IF k = 0
     THEN /\ mres' = Resp(req, 404, "none", <<>>, Null, Null)
          /\ mdisk' = disk
          /\ UNCHANGED <<inventory, mhist>>
     ELSE IF req.file = Null
     THEN /\ mres' = Resp(req, 400, "none", <<>>, Null, Null)
          /\ mdisk' = disk
          /\ UNCHANGED <<inventory, mhist>>
     ELSE IF ShouldUnlink(disk, inventory[k].photo)
             /\ UnlinkThrows(disk, inventory[k].photo)
     THEN /\ mres' = Resp(req, 500, "enoent", <<>>, Null, inventory[k].photo)
          /\ mdisk' = disk
          /\ UNCHANGED <<inventory, mhist>>
     ELSE /\ mdisk' = IF ShouldUnlink(disk, inventory[k].photo)
                      THEN UnlinkSync(disk, inventory[k].photo) ELSE disk
          /\ inventory' = [inventory EXCEPT ![k].photo = req.file]
          /\ mhist' = HistPhoto(mhist, req.itemId)
          /\ mres' = Resp(req, 200, "none", <<>>, Null, inventory[k].photo)

\* DELETE /inventory/:id
MemDelete(idp) ==
  LET req == Req("delete", idp, Undefined, Undefined, Null, Undefined)
      k == FindIndex(inventory, req.itemId) IN
  /\ UNCHANGED <<nextId, mfile>>
  /\ IF k = 0
     THEN /\ mres' = Resp(req, 404, "none", <<>>, Null, Null)
          /\ UNCHANGED <<inventory, mdisk, mhist>>
     ELSE /\ inventory' = Splice(inventory, k)
          /\ mhist' = HistDelete(mhist, req.itemId)
          /\ IF ShouldUnlink(mdisk, inventory[k].photo)
                /\ UnlinkThrows(mdisk, inventory[k].photo)
             THEN /\ mres' = Resp(req, 500, "enoent", <<>>, Null, inventory[k].photo)
                  /\ UNCHANGED mdisk
             ELSE /\ mdisk' = IF ShouldUnlink(mdisk, inventory[k].photo)
                              THEN UnlinkSync(mdisk, inventory[k].photo) ELSE mdisk
                  /\ mres' = Resp(req, 200, "none", <<>>, Null, inventory[k].photo)

\* mutant of SearchOutput: the note is appended without the test of the photo
SearchOutputAnyItem(item, flag) ==
  IF flag = "on"
  THEN [item EXCEPT !.description = @ \o PhotoNote(item.id)]
  ELSE item

\* if (includePhoto === 'on' && result.photo) result.description += note
SearchOutput(item, flag) ==
  IF flag = "on" /\ item.photo # Null
  THEN [item EXCEPT !.description = @ \o PhotoNote(item.id)]
  ELSE item

\* POST /search
MemSearch(idp, flag) ==
  LET req == Req("search", idp, Undefined, Undefined, Null, flag)
      k == FindIndex(inventory, req.itemId) IN
  /\ mres' = IF k = 0
             THEN Resp(req, 404, "none", <<>>, Null, Null)
             ELSE Resp(req, 200, "none", <<SearchOutput(inventory[k], flag)>>, Null, Null)
  /\ UNCHANGED <<inventory, nextId, mdisk, mfile, mhist>>

\* ------------------------------------------------------ SQL-backed variant
\* One action per awaited dbClient.query: the query runs and the handler's
\* continuation runs up to its next await. `fail` is a storage failure of that
\* query (the awaited promise rejects).

Idle == [kind |-> "idle", itemId |-> NaN, name |-> Undefined, desc |-> Undefined,
         file |-> Null, old |-> Null]

\* a handler suspended at its second query
Proc(kind, itemId, name, desc, file, old) ==
  [kind |-> kind, itemId |-> itemId, name |-> name, desc |-> desc,
   file |-> file, old |-> old]

FreeSlots(limit) == {s \in 1..limit : procs[s].kind = "idle"}
AllIdle == \A s \in 1..MaxInflight : procs[s].kind = "idle"

\* WHERE id = $1
HasRow(rs, itemId) == \E r \in rs : r.id = itemId
RowOf(rs, itemId) == CHOOSE r \in rs : r.id = itemId

\* mutant of OrderById: ORDER BY id DESC
OrderByIdDesc(rs) ==
  CHOOSE q \in [1..Cardinality(rs) -> rs] :
    \A i, j \in 1..Cardinality(rs) : i < j => q[i].id > q[j].id

\* ORDER BY id ASC
OrderById(rs) ==
  CHOOSE q \in [1..Cardinality(rs) -> rs] :
    \A i, j \in 1..Cardinality(rs) : i < j => q[i].id < q[j].id

\* a query whose id parameter is NaN is rejected by the database (invalid
\* input for an integer column), like a query that hits a storage failure
QueryThrows(itemId, fail) == fail \/ itemId = NaN
QueryErr(itemId) == IF itemId = NaN THEN "nan" ELSE "db"

\* COALESCE($1, column); node-postgres sends undefined as NULL
Coalesce(v, old) == IF v = Undefined THEN old ELSE v

\* UPDATE items SET name = COALESCE($1, name), description = COALESCE($2, description)
SqlApplyUpdate(row, name, desc) ==
  [row EXCEPT !.name = Coalesce(name, @), !.description = Coalesce(desc, @)]

\* uploads the SQL-backed server accepts in a run
FileLimit == IF variant = "race" THEN MaxRaceFiles ELSE MaxFiles

SqlUpload(hasFile) ==
  /\ hasFile => sfile <= FileLimit
  /\ sfile' = IF hasFile THEN sfile + 1 ELSE sfile

SqlReqFile(hasFile) == IF hasFile THEN sfile ELSE Null
SqlDiskIn(hasFile) == IF hasFile THEN sdisk \cup {sfile} ELSE sdisk

\* INSERT INTO items (name, description, photo) VALUES ($1, $2, $3) RETURNING *
SqlNewRow(name, desc, file) ==
  [id |-> seq, name |-> name, description |-> OrEmpty(desc), photo |-> file]

\* POST /register
SqlRegister(name, desc, hasFile, fail) ==
  LET req == Req("register", <<>>, name, desc, SqlReqFile(hasFile), Undefined) IN
  /\ SqlUpload(hasFile)
  /\ sdisk' = SqlDiskIn(hasFile)
  /\ UNCHANGED procs
  /\ IF NameMissing(name)
     THEN /\ ~fail
          /\ sres' = Resp(req, 400, "none", <<>>, Null, Null)
          /\ UNCHANGED <<rows, seq, shist>>
     ELSE IF fail
     THEN /\ sres' = Resp(req, 500, "db", <<>>, Null, Null)
          /\ UNCHANGED <<rows, seq, shist>>
     ELSE /\ seq <= MaxItems
          /\ seq' = seq + 1
          /\ shist' = HistRegister(shist, seq, name, desc, req.file)
          /\ rows' = rows \cup {SqlNewRow(name, desc, req.file)}
          /\ sres' = Resp(req, 201, "none", <<SqlNewRow(name, desc, req.file)>>,
                          Null, Null)

\* GET /inventory
SqlList(fail) ==
  /\ sres' = IF fail
             THEN Resp(Req("list", <<>>, Undefined, Undefined, Null, Undefined),
                       500, "db", <<>>, Null, Null)
             ELSE Resp(Req("list", <<>>, Undefined, Undefined, Null, Undefined),
                       200, "none",
                       [k \in 1..Cardinality(rows) |-> WithLink(OrderById(rows)[k])],
                       Null, Null)
  /\ UNCHANGED <<rows, seq, sdisk, sfile, procs, shist>>

\* GET /inventory/:id
SqlGet(idp, fail) ==
  LET req == Req("get", idp, Undefined, Undefined, Null, Undefined) IN
  /\ sres' = IF QueryThrows(req.itemId, fail)
             THEN Resp(req, 500, QueryErr(req.itemId), <<>>, Null, Null)
             ELSE IF ~HasRow(rows, req.itemId)
             THEN Resp(req, 404, "none", <<>>, Null, Null)
             ELSE Resp(req, 200, "none", <<WithLink(RowOf(rows, req.itemId))>>,
                       Null, Null)
  /\ UNCHANGED <<rows, seq, sdisk, sfile, procs, shist>>

\* GET /inventory/:id/photo: the response
SqlGetPhotoResponse(idp, fail) ==
  LET req == Req("getphoto", idp, Undefined, Undefined, Null, Undefined) IN
  IF QueryThrows(req.itemId, fail)
  THEN Resp(req, 500, QueryErr(req.itemId), <<>>, Null, Null)
  ELSE IF \/ ~HasRow(rows, req.itemId)
          \/ RowOf(rows, req.itemId).photo = Null
          \/ ~ExistsSync(sdisk, RowOf(rows, req.itemId).photo)
  THEN Resp(req, 404, "none", <<>>, Null, Null)
  ELSE Resp(req, 200, "none", <<>>, RowOf(rows, req.itemId).photo, Null)

\* GET /inventory/:id/photo
SqlGetPhoto(idp, fail) ==
  /\ sres' = SqlGetPhotoResponse(idp, fail)
  /\ UNCHANGED <<rows, seq, sdisk, sfile, procs, shist>>

\* POST /search
SqlSearch(idp, flag, fail) ==
  LET req == Req("search", idp, Undefined, Undefined, Null, flag) IN
  /\ sres' = IF QueryThrows(req.itemId, fail)
             THEN Resp(req, 500, QueryErr(req.itemId), <<>>, Null, Null)
             ELSE IF ~HasRow(rows, req.itemId)
             THEN Resp(req, 404, "none", <<>>, Null, Null)
             ELSE Resp(req, 200, "none",
                       <<SearchOutput(RowOf(rows, req.itemId), flag)>>, Null, Null)
  /\ UNCHANGED <<rows, seq, sdisk, sfile, procs, shist>>

\* PUT /inventory/:id up to the UPDATE: the SELECT and the 404
SqlUpdateCheck(limit, idp, name, desc, fail) ==
  LET req == Req("update", idp, Undefined, Undefined, Null, Undefined) IN
  /\ FreeSlots(limit) # {}
  /\ UNCHANGED <<rows, seq, sdisk, sfile, shist>>
  /\ IF QueryThrows(req.itemId, fail)
     THEN /\ sres' = Resp(req, 500, QueryErr(req.itemId), <<>>, Null, Null)
          /\ UNCHANGED procs
     ELSE IF ~HasRow(rows, req.itemId)
     THEN /\ sres' = Resp(req, 404, "none", <<>>, Null, Null)
          /\ UNCHANGED procs
     ELSE /\ procs' = [procs EXCEPT ![CHOOSE s \in FreeSlots(limit) :
                                        \A t \in FreeSlots(limit) : s <= t] =
                         Proc("update", req.itemId, name, desc, Null, Null)]
          /\ sres' = NoResp

\* PUT /inventory/:id from the UPDATE ... RETURNING * on
SqlUpdateExec(s, fail) ==
  LET p == procs[s]
      req == [kind |-> "update", itemId |-> p.itemId, named |-> FALSE,
              file |-> Null, flag |-> Undefined] IN
  /\ p.kind = "update"
  /\ procs' = [procs EXCEPT ![s] = Idle]
  /\ UNCHANGED <<seq, sdisk, sfile>>
  /\ IF fail
     THEN /\ sres' = Resp(req, 500, "db", <<>>, Null, Null)
          /\ UNCHANGED <<rows, shist>>
     ELSE /\ rows' = {IF r.id = p.itemId THEN SqlApplyUpdate(r, p.name, p.desc) ELSE r :
                        r \in rows}
          /\ shist' = HistUpdate(shist, p.itemId)
          /\ sres' = Resp(req, 200, "none",
                          IF HasRow(rows, p.itemId)
                          THEN <<SqlApplyUpdate(RowOf(rows, p.itemId), p.name, p.desc)>>
                          ELSE <<>>,
                          Null, Null)

\* PUT /inventory/:id/photo up to the UPDATE: the 400, the SELECT, the 404
\* and the removal of the old photo file
SqlPutPhotoCheck(limit, idp, hasFile, fail) ==
  LET req == Req("putphoto", idp, Undefined, Undefined, SqlReqFile(hasFile), Undefined)
      disk == SqlDiskIn(hasFile)
      old == RowOf(rows, req.itemId).photo IN
  /\ FreeSlots(limit) # {}
  /\ SqlUpload(hasFile)
  /\ UNCHANGED <<rows, seq, shist>>
  /\ IF req.file = Null
     THEN /\ ~fail
          /\ sres' = Resp(req, 400, "none", <<>>, Null, Null)
          /\ sdisk' = disk
          /\ UNCHANGED procs
     ELSE IF QueryThrows(req.itemId, fail)
     THEN /\ sres' = Resp(req, 500, QueryErr(req.itemId), <<>>, Null, Null)
          /\ sdisk' = disk
          /\ UNCHANGED procs
     ELSE IF ~HasRow(rows, req.itemId)
     THEN /\ sres' = Resp(req, 404, "none", <<>>, Null, Null)
          /\ sdisk' = disk
          /\ UNCHANGED procs
     ELSE IF ShouldUnlink(disk, old) /\ UnlinkThrows(disk, old)
     THEN /\ sres' = Resp(req, 500, "enoent", <<>>, Null, old)
          /\ sdisk' = disk
          /\ UNCHANGED procs
     ELSE /\ sdisk' = IF ShouldUnlink(disk, old) THEN UnlinkSync(disk, old) ELSE disk
          /\ procs' = [procs EXCEPT ![CHOOSE s \in FreeSlots(limit) :
                                        \A t \in FreeSlots(limit) : s <= t] =
                         Proc("putphoto", req.itemId, Undefined, Undefined, req.file, old)]
          /\ sres' = NoResp

\* PUT /inventory/:id/photo from the UPDATE items SET photo on
SqlPutPhotoExec(s, fail) ==
  LET p == procs[s]
      req == [kind |-> "putphoto", itemId |-> p.itemId, named |-> FALSE,
              file |-> p.file, flag |-> Undefined] IN
  /\ p.kind = "putphoto"
  /\ procs' = [procs EXCEPT ![s] = Idle]
  /\ UNCHANGED <<seq, sdisk, sfile>>
  /\ IF fail
     THEN /\ sres' = Resp(req, 500, "db", <<>>, Null, p.old)
          /\ UNCHANGED <<rows, shist>>
     ELSE /\ rows' = {IF r.id = p.itemId THEN [r EXCEPT !.photo = p.file] ELSE r :
                        r \in rows}
          /\ shist' = HistPhoto(shist, p.itemId)
          /\ sres' = Resp(req, 200, "none", <<>>, Null, p.old)

\* DELETE /inventory/:id up to the DELETE: the SELECT and the 404
SqlDeleteCheck(limit, idp, fail) ==
  LET req == Req("delete", idp, Undefined, Undefined, Null, Undefined) IN
  /\ FreeSlots(limit) # {}
  /\ UNCHANGED <<rows, seq, sdisk, sfile, shist>>
  /\ IF QueryThrows(req.itemId, fail)
     THEN /\ sres' = Resp(req, 500, QueryErr(req.itemId), <<>>, Null, Null)
          /\ UNCHANGED procs
     ELSE IF ~HasRow(rows, req.itemId)
     THEN /\ sres' = Resp(req, 404, "none", <<>>, Null, Null)
          /\ UNCHANGED procs
     ELSE /\ procs' = [procs EXCEPT ![CHOOSE s \in FreeSlots(limit) :
                                        \A t \in FreeSlots(limit) : s <= t] =
                         Proc("delete", req.itemId, Undefined, Undefined, Null,
                              RowOf(rows, req.itemId).photo)]
          /\ sres' = NoResp

\* DELETE /inventory/:id from the DELETE FROM items on, with the removal of
\* the photo file
SqlDeleteExec(s, fail) ==
  LET p == procs[s]
      req == [kind |-> "delete", itemId |-> p.itemId, named |-> FALSE,
              file |-> Null, flag |-> Undefined] IN
  /\ p.kind = "delete"
  /\ procs' = [procs EXCEPT ![s] = Idle]
  /\ UNCHANGED <<seq, sfile>>
  /\ IF fail
     THEN /\ sres' = Resp(req, 500, "db", <<>>, Null, p.old)
          /\ UNCHANGED <<rows, sdisk, shist>>
     ELSE /\ rows' = {r \in rows : r.id # p.itemId}
          /\ shist' = HistDelete(shist, p.itemId)
          /\ IF ShouldUnlink(sdisk, p.old) /\ UnlinkThrows(sdisk, p.old)
             THEN /\ sres' = Resp(req, 500, "enoent", <<>>, Null, p.old)
                  /\ UNCHANGED sdisk
             ELSE /\ sdisk' = IF ShouldUnlink(sdisk, p.old)
                              THEN UnlinkSync(sdisk, p.old) ELSE sdisk
                  /\ sres' = Resp(req, 200, "none", <<>>, Null, p.old)

Init ==
  /\ variant \in {"mem", "sql"}
  /\ inventory = <<>>
  /\ nextId = 1
  /\ mdisk = {}
  /\ mfile = 1
  /\ mres = NoResp
  /\ mhist = HistInit
  /\ rows = {}
  /\ seq = 1
  /\ sdisk = {}
  /\ sfile = 1
  /\ procs = [s \in 1..MaxInflight |-> Idle]
  /\ sres = NoResp
  /\ shist = HistInit

\* ------------------------------------------------ requests of one server
MemRegisterReq ==
  /\ variant = "mem"
  /\ \E name \in RegNames, desc \in RegDescs, hasFile \in BOOLEAN :
       MemRegister(name, desc, hasFile)
  /\ UNCHANGED <<variant, sqlVars>>

MemListReq ==
  /\ variant = "mem"
  /\ MemList
  /\ UNCHANGED <<variant, sqlVars>>

MemGetReq ==
  /\ variant = "mem"
  /\ \E idp \in IdParams : MemGet(idp)
  /\ UNCHANGED <<variant, sqlVars>>

MemUpdateReq ==
  /\ variant = "mem"
  /\ \E idp \in IdParams, name \in PutNames, desc \in PutDescs :
       MemUpdate(idp, name, desc)
  /\ UNCHANGED <<variant, sqlVars>>

MemGetPhotoReq ==
  /\ variant = "mem"
  /\ \E idp \in IdParams : MemGetPhoto(idp)
  /\ UNCHANGED <<variant, sqlVars>>

MemPutPhotoReq ==
  /\ variant = "mem"
  /\ \E idp \in IdParams, hasFile \in BOOLEAN : MemPutPhoto(idp, hasFile)
  /\ UNCHANGED <<variant, sqlVars>>

MemDeleteReq ==
  /\ variant = "mem"
  /\ \E idp \in IdParams : MemDelete(idp)
  /\ UNCHANGED <<variant, sqlVars>>

MemSearchReq ==
  /\ variant = "mem"
  /\ \E idp \in IdParams, flag \in Flags : MemSearch(idp, flag)
  /\ UNCHANGED <<variant, sqlVars>>

NextMem ==
  \/ MemRegisterReq
  \/ MemListReq
  \/ MemGetReq
  \/ MemUpdateReq
  \/ MemGetPhotoReq
  \/ MemPutPhotoReq
  \/ MemDeleteReq
  \/ MemSearchReq

\* the SQL-backed server, one request at a time
SqlRegisterReq ==
  /\ variant = "sql" /\ AllIdle
  /\ \E name \in RegNames, desc \in RegDescs, hasFile \in BOOLEAN, fail \in BOOLEAN :
       SqlRegister(name, desc, hasFile, fail)
  /\ UNCHANGED <<variant, memVars>>

SqlListReq ==
  /\ variant = "sql" /\ AllIdle
  /\ \E fail \in BOOLEAN : SqlList(fail)
  /\ UNCHANGED <<variant, memVars>>

SqlGetReq ==
  /\ variant = "sql" /\ AllIdle
  /\ \E idp \in IdParams, fail \in BOOLEAN : SqlGet(idp, fail)
  /\ UNCHANGED <<variant, memVars>>

SqlUpdateReq ==
  /\ variant = "sql" /\ AllIdle
  /\ \E idp \in IdParams, fail \in BOOLEAN :
       \E name \in IF fail THEN {Undefined} ELSE PutNames,
          desc \in IF fail THEN {Undefined} ELSE PutDescs :
         SqlUpdateCheck(1, idp, name, desc, fail)
  /\ UNCHANGED <<variant, memVars>>

SqlGetPhotoReq ==
  /\ variant = "sql" /\ AllIdle
  /\ \E idp \in IdParams, fail \in BOOLEAN : SqlGetPhoto(idp, fail)
  /\ UNCHANGED <<variant, memVars>>

SqlPutPhotoReq ==
  /\ variant = "sql" /\ AllIdle
  /\ \E idp \in IdParams, hasFile \in BOOLEAN, fail \in BOOLEAN :
       SqlPutPhotoCheck(1, idp, hasFile, fail)
  /\ UNCHANGED <<variant, memVars>>

SqlDeleteReq ==
  /\ variant = "sql" /\ AllIdle
  /\ \E idp \in IdParams, fail \in BOOLEAN : SqlDeleteCheck(1, idp, fail)
  /\ UNCHANGED <<variant, memVars>>

SqlSearchReq ==
  /\ variant = "sql" /\ AllIdle
  /\ \E idp \in IdParams, flag \in Flags, fail \in BOOLEAN : SqlSearch(idp, flag, fail)
  /\ UNCHANGED <<variant, memVars>>

\* a suspended handler resumes
SqlUpdateResume ==
  /\ \E s \in 1..MaxInflight, fail \in BOOLEAN : SqlUpdateExec(s, fail)
  /\ UNCHANGED <<variant, memVars>>

SqlPutPhotoResume ==
  /\ \E s \in 1..MaxInflight, fail \in BOOLEAN : SqlPutPhotoExec(s, fail)
  /\ UNCHANGED <<variant, memVars>>

SqlDeleteResume ==
  /\ \E s \in 1..MaxInflight, fail \in BOOLEAN : SqlDeleteExec(s, fail)
  /\ UNCHANGED <<variant, memVars>>

NextSql ==
  \/ SqlRegisterReq
  \/ SqlListReq
  \/ SqlGetReq
  \/ SqlUpdateReq
  \/ SqlGetPhotoReq
  \/ SqlPutPhotoReq
  \/ SqlDeleteReq
  \/ SqlSearchReq
  \/ SqlUpdateResume
  \/ SqlPutPhotoResume
  \/ SqlDeleteResume

Next == NextMem \/ NextSql

Spec == Init /\ [][Next]_vars

\* ---------------------------------------- both servers on the same requests
\* Each request goes to both servers, the next one once both have answered
\* alike; no storage failure.
MemItems == {inventory[k] : k \in 1..Len(inventory)}

\* the two servers gave the same answer (status, JSON body, streamed file) and
\* hold the same items and photo files
Agree ==
  /\ mres.status = sres.status
  /\ mres.body = sres.body
  /\ mres.sent = sres.sent
  /\ MemItems = rows
  /\ mdisk = sdisk

InitPair ==
  /\ variant = "pair"
  /\ inventory = <<>>
  /\ nextId = 1
  /\ mdisk = {}
  /\ mfile = 1
  /\ mres = NoResp
  /\ mhist = HistInit
  /\ rows = {}
  /\ seq = 1
  /\ sdisk = {}
  /\ sfile = 1
  /\ procs = [s \in 1..MaxInflight |-> Idle]
  /\ sres = NoResp
  /\ shist = HistInit

PairRegister ==
  /\ AllIdle /\ Agree
  /\ \E name \in RegNames, desc \in RegDescs, hasFile \in BOOLEAN :
       MemRegister(name, desc, hasFile) /\ SqlRegister(name, desc, hasFile, FALSE)
  /\ UNCHANGED variant

PairList ==
  /\ AllIdle /\ Agree
  /\ MemList /\ SqlList(FALSE)
  /\ UNCHANGED variant

PairGet ==
  /\ AllIdle /\ Agree
  /\ \E idp \in IdParams : MemGet(idp) /\ SqlGet(idp, FALSE)
  /\ UNCHANGED variant

PairUpdate ==
  /\ AllIdle /\ Agree
  /\ \E idp \in IdParams, name \in PutNames, desc \in PutDescs :
       MemUpdate(idp, name, desc) /\ SqlUpdateCheck(1, idp, name, desc, FALSE)
  /\ UNCHANGED variant

PairGetPhoto ==
  /\ AllIdle /\ Agree
  /\ \E idp \in IdParams : MemGetPhoto(idp) /\ SqlGetPhoto(idp, FALSE)
  /\ UNCHANGED variant

PairPutPhoto ==
  /\ AllIdle /\ Agree
  /\ \E idp \in IdParams, hasFile \in BOOLEAN :
       MemPutPhoto(idp, hasFile) /\ SqlPutPhotoCheck(1, idp, hasFile, FALSE)
  /\ UNCHANGED variant

PairDelete ==
  /\ AllIdle /\ Agree
  /\ \E idp \in IdParams : MemDelete(idp) /\ SqlDeleteCheck(1, idp, FALSE)
  /\ UNCHANGED variant

PairSearch ==
  /\ AllIdle /\ Agree
  /\ \E idp \in IdParams, flag \in Flags : MemSearch(idp, flag) /\ SqlSearch(idp, flag, FALSE)
  /\ UNCHANGED variant

PairUpdateResume ==
  /\ \E s \in 1..MaxInflight : SqlUpdateExec(s, FALSE)
  /\ UNCHANGED <<variant, memVars>>

PairPutPhotoResume ==
  /\ \E s \in 1..MaxInflight : SqlPutPhotoExec(s, FALSE)
  /\ UNCHANGED <<variant, memVars>>

PairDeleteResume ==
  /\ \E s \in 1..MaxInflight : SqlDeleteExec(s, FALSE)
  /\ UNCHANGED <<variant, memVars>>

NextPair ==
  \/ PairRegister
  \/ PairList
  \/ PairGet
  \/ PairUpdate
  \/ PairGetPhoto
  \/ PairPutPhoto
  \/ PairDelete
  \/ PairSearch
  \/ PairUpdateResume
  \/ PairPutPhotoResume
  \/ PairDeleteResume

SpecPair == InitPair /\ [][NextPair]_vars

\* ------------------------------ the SQL-backed server, requests interleaved
\* Requests that register, replace a photo or delete arrive while others are
\* suspended at an awaited query; up to MaxInflight handlers are in flight.
InitRace ==
  /\ variant = "race"
  /\ inventory = <<>>
  /\ nextId = 1
  /\ mdisk = {}
  /\ mfile = 1
  /\ mres = NoResp
  /\ mhist = HistInit
  /\ rows = {}
  /\ seq = 1
  /\ sdisk = {}
  /\ sfile = 1
  /\ procs = [s \in 1..MaxInflight |-> Idle]
  /\ sres = NoResp
  /\ shist = HistInit

RaceRegister ==
  /\ \E name \in {"", "a"}, hasFile \in BOOLEAN, fail \in BOOLEAN :
       SqlRegister(name, Undefined, hasFile, fail)
  /\ UNCHANGED <<variant, memVars>>

RacePutPhoto ==
  /\ \E idp \in IdParams, hasFile \in BOOLEAN, fail \in BOOLEAN :
       SqlPutPhotoCheck(MaxInflight, idp, hasFile, fail)
  /\ UNCHANGED <<variant, memVars>>

RaceDelete ==
  /\ \E idp \in IdParams, fail \in BOOLEAN : SqlDeleteCheck(MaxInflight, idp, fail)
  /\ UNCHANGED <<variant, memVars>>

RacePutPhotoResume ==
  /\ \E s \in 1..MaxInflight, fail \in BOOLEAN : SqlPutPhotoExec(s, fail)
  /\ UNCHANGED <<variant, memVars>>

RaceDeleteResume ==
  /\ \E s \in 1..MaxInflight, fail \in BOOLEAN : SqlDeleteExec(s, fail)
  /\ UNCHANGED <<variant, memVars>>

NextRace ==
  \/ RaceRegister
  \/ RacePutPhoto
  \/ RaceDelete
  \/ RacePutPhotoResume
  \/ RaceDeleteResume

SpecRace == InitRace /\ [][NextRace]_vars

\* ------------------------------------------------------------------ claims
SqlIdOf(itemId) == {idp \in IdParams : ParseInt(idp) = itemId}

\* C1: in every reachable state of either variant, states between the awaited
\* storage calls and states after a storage error included, every item whose
\* photo path is non-null references a file that exists on disk.
C1_PhotoFileExists ==
  /\ \A it \in MemItems : it.photo # Null => it.photo \in mdisk
  /\ \A r \in rows : r.photo # Null => r.photo \in sdisk

\* C2: a successful DELETE /inventory/{id} and a successful
\* PUT /inventory/{id}/photo leave the photo file the handler found on the
\* item absent from disk, and no request unlinks a file that is already
\* absent (no response is a 500 caused by ENOENT from unlinkSync).
C2_OldFileRemovedOnce ==
  /\ mres.err # "enoent"
  /\ sres.err # "enoent"
  /\ (mres.req.kind \in {"delete", "putphoto"} /\ mres.status = 200 /\ mres.old # Null)
       => mres.old \notin mdisk
  /\ (sres.req.kind \in {"delete", "putphoto"} /\ sres.status = 200 /\ sres.old # Null)
       => sres.old \notin sdisk

\* the photo of an item that had one was replaced
C2_Witness ==
  /\ sres.req.kind = "putphoto" /\ sres.status = 200
  /\ sres.old # Null
  /\ sres.req.file \in sdisk

\* what C3 asks of the answer r to a PUT /inventory/{id}/photo, given the
\* items and files of the server and what its GET /inventory/{id}/photo serves
PutPhotoContract(r, items, disk, served) ==
  IF r.req.file = Null THEN r.status = 400
  ELSE IF ~\E it \in items : it.id = r.req.itemId THEN r.status = 404
  ELSE /\ r.status = 200
       /\ \A it \in items : it.id = r.req.itemId => it.photo = r.req.file
       /\ r.req.file \in disk
       /\ r.old # Null => r.old \notin disk
       /\ served = r.req.file

\* C3: PUT /inventory/{id}/photo answers 400 whenever no file is uploaded
\* (also when the id is unknown too), 404 whenever a file is uploaded and the
\* id is unknown, and otherwise 200 with the old photo file deleted and the
\* item's photo path set to the new file, which exists and is what
\* GET /inventory/{id}/photo serves; in both variants (a request that met a
\* storage failure aside).
C3_PutPhotoContract ==
  /\ mres.req.kind = "putphoto" =>
       PutPhotoContract(mres, MemItems, mdisk,
         IF SqlIdOf(mres.req.itemId) = {} THEN Null
         ELSE MemGetPhotoResponse(CHOOSE idp \in SqlIdOf(mres.req.itemId) : TRUE).sent)
  /\ (sres.req.kind = "putphoto" /\ sres.err # "db") =>
       PutPhotoContract(sres, rows, sdisk,
         IF SqlIdOf(sres.req.itemId) = {} THEN Null
         ELSE SqlGetPhotoResponse(CHOOSE idp \in SqlIdOf(sres.req.itemId) : TRUE,
                                  FALSE).sent)

\* C4: POST /register with a missing or empty name answers 400 and leaves the
\* item store unchanged: no record is added and the next id is not advanced.
C4_RegisterNamelessRejected ==
  [][/\ (mres'.req.kind = "register" /\ ~mres'.req.named)
          => (mres'.status = 400 /\ UNCHANGED <<inventory, nextId>>)
     /\ (sres'.req.kind = "register" /\ ~sres'.req.named)
          => (sres'.status = 400 /\ UNCHANGED <<rows, seq>>)]_vars

\* a nameless registration that carried a photo was answered 400 while an item
\* is stored
C4_Witness ==
  /\ mres.req.kind = "register" /\ ~mres.req.named /\ mres.status = 400
  /\ mres.req.file # Null
  /\ inventory # <<>>

\* what C5 asks of the answer r to GET /inventory/{id} for an id whose history
\* is h
GetMatchesRegistration(r, h) ==
  /\ r.status = 200
  /\ Len(r.body) = 1
  /\ r.body[1].name = h.name
  /\ r.body[1].description = (IF h.desc = Undefined THEN "" ELSE h.desc)
  /\ (r.body[1].photo_url # NoUrl) <=> h.photo

\* C5 as stated: GET /inventory/{id} of a registered item, before any update
\* or delete of it, returns the registered name and description ('' when
\* none was given) and a non-null photo_url iff a photo was uploaded at
\* registration.
C5_GetReturnsRegistered ==
  /\ (mres.req.kind = "get" /\ mres.req.itemId \in DOMAIN mhist
        /\ mhist[mres.req.itemId].st \in {"fresh", "photoed"})
       => GetMatchesRegistration(mres, mhist[mres.req.itemId])
  /\ (sres.req.kind = "get" /\ sres.err # "db" /\ sres.req.itemId \in DOMAIN shist
        /\ shist[sres.req.itemId].st \in {"fresh", "photoed"})
       => GetMatchesRegistration(sres, shist[sres.req.itemId])

\* C5 amended: the same, before any update, photo replacement or delete of
\* the item.
C5_GetReturnsRegisteredUntilChanged ==
  /\ (mres.req.kind = "get" /\ mres.req.itemId \in DOMAIN mhist
        /\ mhist[mres.req.itemId].st = "fresh")
       => GetMatchesRegistration(mres, mhist[mres.req.itemId])
  /\ (sres.req.kind = "get" /\ sres.err # "db" /\ sres.req.itemId \in DOMAIN shist
        /\ shist[sres.req.itemId].st = "fresh")
       => GetMatchesRegistration(sres, shist[sres.req.itemId])

\* a GET of an unchanged item registered with a photo and without a
\* description
C5_Witness ==
  /\ sres.req.kind = "get" /\ sres.status = 200
  /\ sres.req.itemId \in DOMAIN shist
  /\ shist[sres.req.itemId].st = "fresh"
  /\ shist[sres.req.itemId].photo
  /\ shist[sres.req.itemId].desc = Undefined

\* what C6 asks of the item `new` that PUT /inventory/{id} with body
\* (name, desc) makes of `old`
UpdateFrame(old, new, name, desc) ==
  /\ new.id = old.id
  /\ new.photo = old.photo
  /\ new.name = (IF name \notin {Undefined, ""} THEN name ELSE old.name)
  /\ new.description = (IF desc \notin {Undefined, ""} THEN desc ELSE old.description)

\* C6: PUT /inventory/{id} on an existing item overwrites name only when the
\* body gives a non-empty name and description only when it gives a non-empty
\* description; an omitted or empty field is left unchanged, and id and photo
\* path never change; in both variants.
C6_UpdateOverwritesOnlyNonEmpty ==
  [][/\ \A idp \in IdParams, name \in PutNames, desc \in PutDescs :
          (MemUpdate(idp, name, desc) /\ mres'.status = 200) =>
             \A k \in 1..Len(inventory) :
                inventory[k].id = ParseInt(idp) =>
                  UpdateFrame(inventory[k], inventory'[k], name, desc)
     /\ \A s \in 1..MaxInflight :
          (SqlUpdateExec(s, FALSE) /\ sres'.status = 200) =>
             \A r \in rows :
                r.id = procs[s].itemId =>
                  \E r2 \in rows' : UpdateFrame(r, r2, procs[s].name, procs[s].desc)]_vars

\* C7: once DELETE /inventory/{id} has succeeded, every later
\* GET /inventory/{id} and GET /inventory/{id}/photo answers 404 (a request
\* that met a storage failure aside), whatever was registered, updated,
\* replaced or deleted since.
C7_DeletedStaysNotFound ==
  /\ (mres.req.kind \in {"get", "getphoto"} /\ mres.req.itemId \in DOMAIN mhist
        /\ mhist[mres.req.itemId].gone) => mres.status = 404
  /\ (sres.req.kind \in {"get", "getphoto"} /\ sres.err # "db"
        /\ sres.req.itemId \in DOMAIN shist /\ shist[sres.req.itemId].gone)
       => sres.status = 404

\* the photo of a deleted item that had one was asked for after a later
\* registration
C7_Witness ==
  /\ mres.req.kind = "getphoto" /\ mres.status = 404
  /\ mres.req.itemId \in DOMAIN mhist /\ mhist[mres.req.itemId].gone
  /\ inventory # <<>>
  /\ mfile > 1 /\ mdisk = {}

ItemScoped == {"get", "update", "delete", "getphoto", "putphoto", "search"}

\* C8: on every item-scoped endpoint a request whose id identifies no stored
\* item, an id that does not parse as an integer included, answers 404, never
\* 500, and leaves the item store and the photo files unchanged (a PUT photo
\* without a file, which is a 400, and a storage failure aside).
C8_UnknownIdIs404 ==
  [][/\ (/\ variant = "mem"
         /\ mres'.req.kind \in ItemScoped
         /\ mres'.req.kind = "putphoto" => mres'.req.file # Null
         /\ ~\E it \in MemItems : it.id = mres'.req.itemId)
          => (mres'.status = 404 /\ UNCHANGED <<inventory, nextId, mdisk>>)
     /\ (/\ variant = "sql" /\ AllIdle
         /\ sres'.req.kind \in ItemScoped
         /\ sres'.req.kind = "putphoto" => sres'.req.file # Null
         /\ sres'.err # "db"
         /\ ~HasRow(rows, sres'.req.itemId))
          => (sres'.status = 404 /\ UNCHANGED <<rows, seq, sdisk>>)]_vars

\* descriptions a client sent, none of which holds a photo-link note
SentDescs == {""} \cup ((RegDescs \cup PutDescs) \ {Undefined})

\* what C9 asks of the answer r to POST /search; a flagged search is to carry
\* the note for every stored item (always) or for those with a photo
SearchNote(r, items, always) ==
  (r.req.kind = "search" /\ r.status = 200) =>
     /\ Len(r.body) = 1
     /\ \E it \in items :
          /\ it.id = r.req.itemId
          /\ r.body[1].description =
               (IF r.req.flag = "on" /\ (always \/ it.photo # Null)
                THEN it.description \o PhotoNote(it.id) ELSE it.description)

\* C9 as stated: POST /search with the id of an existing item and
\* includePhoto=on returns the stored description followed by one photo-link
\* note; the stored description stays without a note, and GET /inventory/{id}
\* and an unflagged search return it as stored.
C9_SearchAppendsNote ==
  /\ \A it \in MemItems \cup rows : it.description \in SentDescs
  /\ SearchNote(mres, MemItems, TRUE)
  /\ SearchNote(sres, rows, TRUE)

\* C9 amended: the note is appended only for an item that has a photo; for an
\* item without one the flagged search returns the description as stored.
C9_SearchAppendsNoteIfPhoto ==
  /\ \A it \in MemItems \cup rows : it.description \in SentDescs
  /\ SearchNote(mres, MemItems, FALSE)
  /\ SearchNote(sres, rows, FALSE)
  /\ \A r \in {mres, sres} :
       (r.req.kind = "get" /\ r.status = 200) =>
          \E it \in MemItems \cup rows :
             it.id = r.req.itemId /\ r.body[1].description = it.description

\* a flagged search of an item with a photo and a description
C9_Witness ==
  /\ sres.req.kind = "search" /\ sres.status = 200 /\ sres.req.flag = "on"
  /\ \E r \in rows : r.id = sres.req.itemId /\ r.photo # Null /\ r.description # ""

\* C10: run side by side from empty stores on the same sequential requests,
\* with no storage failure, the two variants return the same status and item
\* fields for every request and hold corresponding items and photo files.
C10_VariantsAgree == AllIdle => Agree

\* ids that have been assigned to an item at some time, by the history h
AssignedIds(h) == {i \in DOMAIN h : h[i].st # "none"}

\* no two stored items share an id
UniqueIds ==
  /\ \A j, k \in 1..Len(inventory) : inventory[j].id = inventory[k].id => j = k
  /\ \A r, q \in rows : r.id = q.id => r = q

\* C11: after any sequence of register, update, replace-photo and delete
\* requests every id maps to at most one stored item, and each newly
\* registered item gets an id strictly greater than every id assigned before
\* it, so the id of a deleted item is never reused.
C11_IdsUniqueAndIncreasing ==
  [][/\ UniqueIds'
     /\ (variant = "mem" /\ mres'.req.kind = "register" /\ mres'.status = 201)
          => /\ \A i \in AssignedIds(mhist) : mres'.body[1].id > i
             /\ \A it \in MemItems : mres'.body[1].id > it.id
     /\ (variant = "sql" /\ sres'.req.kind = "register" /\ sres'.status = 201)
          => /\ \A i \in AssignedIds(shist) : sres'.body[1].id > i
             /\ \A r \in rows : sres'.body[1].id > r.id]_vars

\* an item was registered after the only item before it had been deleted
C11_Witness ==
  /\ mres.req.kind = "register" /\ mres.status = 201
  /\ Len(inventory) = 1
  /\ \E i \in DOMAIN mhist : mhist[i].gone
\* C12: when requests that delete or replace the photo of the same item
\* interleave at the awaited queries of the SQL-backed variant, removing an
\* already removed photo file is a no-op: no request meets a file error
\* (ENOENT from unlinkSync) or answers 500 because of one.
C12_RacingRemovalIsNoop ==
  /\ sres.err # "enoent"
  /\ sres.status = 500 => sres.err \in {"db", "nan"}

\* two requests on the same item are suspended, both having read the same
\* photo path from its row; a replace among them removed the file, and for
\* the other the removal was a no-op or is still to come
C12_Witness ==
  \E s, t \in 1..MaxInflight :
     /\ s # t
     /\ procs[s].kind = "putphoto"
     /\ procs[t].kind \in {"putphoto", "delete"}
     /\ procs[s].itemId = procs[t].itemId
     /\ procs[s].old # Null /\ procs[s].old = procs[t].old
     /\ procs[s].old \notin sdisk
\* the ids of a sequence of items increase strictly
Ascending(items) ==
  \A j, k \in 1..Len(items) : j < k => items[j].id < items[k].id

\* what C13 asks of the answer r to GET /inventory over the stored ids
ListsAllAscending(r, ids) ==
  (r.req.kind = "list" /\ r.status = 200) =>
     /\ Ascending(r.body)
     /\ {r.body[k].id : k \in 1..Len(r.body)} = ids
     /\ Len(r.body) = Cardinality(ids)

\* C13: GET /inventory returns all stored items in ascending id order in
\* both variants, after any register, update, replace-photo and delete
\* requests; the list of the in-memory variant, returned as stored, is always
\* sorted by strictly increasing id.
C13_ListAscending ==
  /\ Ascending(inventory)
  /\ ListsAllAscending(mres, {it.id : it \in MemItems})
  /\ ListsAllAscending(sres, {r.id : r \in rows})

\* the SQL-backed server listed two items, one of them changed since it was
\* registered
C13_Witness ==
  /\ sres.req.kind = "list" /\ sres.status = 200
  /\ Len(sres.body) = 2
  /\ \E i \in DOMAIN shist : shist[i].st \in {"touched", "photoed"}
\* every file of the cache directory `disk` is the photo path of exactly one
\* of the stored items
EachFileOwnedOnce(disk, items) ==
  \A f \in disk : Cardinality({it \in items : it.photo = f}) = 1

\* C14: once the requests made so far have completed, every uploaded file
\* present in the cache directory is the photo path of exactly one stored
\* item (no orphaned upload), requests that carried a file but were answered
\* 400, 404 or 500 included.
C14_NoOrphanedUpload ==
  AllIdle => /\ EachFileOwnedOnce(mdisk, MemItems)
             /\ EachFileOwnedOnce(sdisk, rows)
====
